---------------------------- MODULE Spec2Model ----------------------------
(***************************************************************************)
(* Model of the database seeding routine of the food-ordering app          *)
(* (src/lib/seed.ts; src/unnamed/part_000 is the same code with comments)  *)
(* and of the "Seed" button handler that starts it (src/unnamed/part_001). *)
(*                                                                         *)
(* The backend is a document store with four collections and a file        *)
(* bucket.  Every backend call made by seed() is one step of the model     *)
(* and can succeed or fail.  The deletes of one listing are all in flight  *)
(* at once and settle in any order.                                        *)
(***************************************************************************)
EXTENDS Naturals, Sequences, FiniteSets

(***************************************************************************)
(* Bounds of the model.                                                    *)
(***************************************************************************)
\* documents one listing call returns at most (the backend's page limit)
PageSize == 2
\* categories / customizations in the fixture
MaxCats == 2
MaxCus == 2
\* menu items in the fixture
MaxMenu == 2
\* times the Seed button is pressed
MaxRuns == 2

\* the largest number of documents a collection holds before the first run
MaxPrior == PageSize + 1

(***************************************************************************)
(* Values.  Names are numbers (the k-th category name is k); generated     *)
(* identifiers are numbers >= 1; a lookup that finds nothing is Undefined. *)
(***************************************************************************)
Undefined == 0

categoriesCollectionId == "categories"
customizationsCollectionId == "customizations"
menuCollectionId == "menu"
menuCustomizationsCollectionId == "menu_customizations"

Collections ==
  << categoriesCollectionId, customizationsCollectionId,
     menuCollectionId, menuCustomizationsCollectionId >>

CollectionIds == { Collections[t] : t \in 1..Len(Collections) }

\* the reset phase clears the four collections, then the bucket
NumTargets == Len(Collections) + 1

\* a URL: host, last path segment, query string, and the file it views
SourceUrl(m) ==
  [ host |-> "cdn", last |-> IF m % 2 = 0 THEN "" ELSE "img.png",
    query |-> IF m % 2 = 0 THEN "" ELSE "w=400", item |-> m, fileId |-> 0 ]

EmptyUrl == [ host |-> "", last |-> "", query |-> "", item |-> 0, fileId |-> 0 ]

(***************************************************************************)
(* The fixture (DummyData): categories, customizations and menu items that *)
(* refer to them by name.  Names are unique within each list.  A menu item *)
(* may name a category or customization the fixture does not list: the     *)
(* names MaxCats + 1 and MaxCus + 1 are such names.                        *)
(***************************************************************************)
Category(k) == [ name |-> k, description |-> "category" ]

Customization(k) == [ name |-> k, price |-> 1, type |-> "topping" ]

MenuItem(m, c, n) ==
  [ name |-> m, description |-> "item", image_url |-> SourceUrl(m),
    price |-> 5, rating |-> 4, calories |-> 300, protein |-> 20,
    category_name |-> c, customizations |-> [ x \in 1..n |-> x ] ]

\* The menus: the first item has any category name and the first n
\* customization names, for any n; each later item takes the next category
\* name and one customization more than the item before it, cyclically.
Menus ==
  { [ m \in 1..len |->
        MenuItem(m, ((c + m - 2) % (MaxCats + 1)) + 1,
                 (n + m - 1) % (MaxCus + 2)) ] :
    len \in 0..MaxMenu, c \in 1..(MaxCats + 1), n \in 0..(MaxCus + 1) }

DummyData ==
  { [ categories |-> [ k \in 1..MaxCats |-> Category(k) ],
      customizations |-> [ k \in 1..MaxCus |-> Customization(k) ],
      menu |-> menu ] : menu \in Menus }

VARIABLES
  data,              \* the fixture
  documents,         \* collection id -> set of documents [id, body]
  files,             \* the bucket: set of files [id, body]
  nextId,            \* the next identifier ID.unique() yields
  pc,                \* position of seed()
  target,            \* reset phase: which target is being cleared (1..5)
  list,              \* reset phase: target -> identifiers its listing returned
  pending,           \* identifiers whose delete is in flight
  i,                 \* index of the current loop over a fixture list
  j,                 \* index into the current item's customizations
  categoryMap,       \* name -> identifier
  customizationMap,  \* name -> identifier
  menuMap,           \* name -> identifier
  imageUrl,          \* uploadImageToStorage: its argument
  uploadedImage,     \* uploadImageToStorage: its result
  doc,               \* identifier of the menu document just created
  call,              \* history: what happened in uploadImageToStorage
  error,             \* what seed() threw: "none" or the failed call
  run,               \* number of runs started
  atStart,           \* history: documents and files when the run started
  created,           \* history: target -> identifiers created in this run
  calls,             \* history: create and delete calls issued in this run
  completed,         \* history: number of runs that completed
  firstCounts,       \* history: documents per collection after the first run
  truncated          \* history: some listing of a collection was cut short

vars ==
  << data, documents, files, nextId, pc, target, list, pending, i, j,
     categoryMap, customizationMap, menuMap, imageUrl, uploadedImage, doc,
     call, error, run, atStart, created, calls, completed, firstCounts, truncated >>

(***************************************************************************)
(* Helpers.                                                                *)
(***************************************************************************)
Ids(S) == { d.id : d \in S }

\* a lookup that yields some stored identifier for a missing key
LookupOrOther(map, key) ==
  IF key \in DOMAIN map THEN map[key]
  ELSE IF DOMAIN map # {} THEN map[CHOOSE k \in DOMAIN map : TRUE]
  ELSE Undefined

\* record[key] of a plain object: the value, or undefined for a missing key
Lookup(map, key) == IF key \in DOMAIN map THEN map[key] ELSE Undefined

\* map[key] = value
Put(map, key, value) ==
  [ k \in DOMAIN map \cup {key} |-> IF k = key THEN value ELSE map[k] ]

EmptyMap == [ k \in {} |-> Undefined ]

NoIds == [ t \in 1..NumTargets |-> {} ]

\* uploadImageToStorage has not been called, or has not got that far
NoCall == [ fetch |-> "none", blob |-> "none", createFile |-> "none", files |-> {} ]

\* the k documents of S with the lowest identifiers (the oldest)
RECURSIVE Oldest(_, _)
Oldest(S, k) ==
  IF k = 0 \/ S = {}
    THEN {}
    ELSE LET d == CHOOSE x \in S : \A y \in S : x.id <= y.id
         IN  {d} \cup Oldest(S \ {d}, k - 1)

\* what one listing call returns: the first page, at most PageSize
\* documents in the order they were stored
Page(S) == Oldest(S, PageSize)

Counts == [ c \in CollectionIds |-> Cardinality(documents[c]) ]

(***************************************************************************)
(* The backend before the first run: the collections and the bucket hold   *)
(* p prior documents each, left by earlier seeding or by other use, for    *)
(* any p up to one more than a page.                                       *)
(***************************************************************************)
PriorId(t, k) == (t - 1) * MaxPrior + k

PriorBody(t, k) ==
  CASE t = 1 -> Category(((k - 1) % MaxCats) + 1)
    [] t = 2 -> Customization(((k - 1) % MaxCus) + 1)
    [] t = 3 -> [ name |-> k, description |-> "item", image_url |-> SourceUrl(k),
                  price |-> 5, rating |-> 4, calories |-> 300, protein |-> 20,
                  categories |-> PriorId(1, k) ]
    [] t = 4 -> [ menu |-> PriorId(3, k), customizations |-> PriorId(2, k) ]
    [] OTHER -> [ name |-> "img.png", type |-> "image/png", uri |-> SourceUrl(k) ]

PriorDocs(t, p) == { [ id |-> PriorId(t, k), body |-> PriorBody(t, k) ] : k \in 1..p }

Init ==
  /\ data \in DummyData
  /\ \E p \in 0..MaxPrior :
       /\ documents = [ c \in CollectionIds |->
            PriorDocs(CHOOSE t \in 1..Len(Collections) : Collections[t] = c, p) ]
       /\ files = PriorDocs(NumTargets, p)
  /\ nextId = NumTargets * MaxPrior + 1
  /\ pc = "idle"
  /\ target = 1
  /\ list = NoIds
  /\ pending = {}
  /\ i = 1
  /\ j = 1
  /\ categoryMap = EmptyMap
  /\ customizationMap = EmptyMap
  /\ menuMap = EmptyMap
  /\ imageUrl = EmptyUrl
  /\ uploadedImage = EmptyUrl
  /\ doc = Undefined
  /\ call = NoCall
  /\ error = "none"
  /\ run = 0
  /\ atStart = [ t \in 1..NumTargets |-> {} ]
  /\ created = NoIds
  /\ calls = 0
  /\ completed = 0
  /\ firstCounts = [ c \in CollectionIds |-> 0 ]
  /\ truncated = FALSE

\* what the history variables of a run start as
Snapshot ==
  [ t \in 1..NumTargets |->
      IF t = NumTargets THEN Ids(files) ELSE Ids(documents[Collections[t]]) ]

(***************************************************************************)
(* The Seed button: testSeed calls seed() and logs what it throws.  The    *)
(* model presses it at most MaxRuns times: first on the prior content,     *)
(* then again after a run that has completed.                              *)
(***************************************************************************)
testSeed ==
  /\ pc \in { "idle", "done" }
  /\ pending = {}
  /\ run < MaxRuns
  /\ run' = run + 1
  /\ pc' = "clearAll"
  /\ target' = 1
  /\ list' = NoIds
  /\ i' = 1
  /\ j' = 1
  /\ categoryMap' = EmptyMap
  /\ customizationMap' = EmptyMap
  /\ menuMap' = EmptyMap
  /\ imageUrl' = EmptyUrl
  /\ uploadedImage' = EmptyUrl
  /\ doc' = Undefined
  /\ call' = NoCall
  /\ error' = "none"
  /\ atStart' = Snapshot
  /\ created' = NoIds
  /\ calls' = 0
  /\ UNCHANGED << data, documents, files, nextId, pending, completed,
                  firstCounts, truncated >>

(***************************************************************************)
(* Phase 1 - reset.  clearAll lists a collection once and issues a delete  *)
(* for every document of the listing; Promise.all waits for all of them    *)
(* and rejects as soon as one fails.                                       *)
(***************************************************************************)
\* a reset that leaves out the customizations collection
NextTargetSkips(t) == IF t = 1 THEN 3 ELSE t + 1

\* seed() clears the four collections, then the bucket: the target after t
NextTarget(t) == t + 1

\* where seed() continues once target t is cleared
AfterClear(t) ==
  IF NextTarget(t) > NumTargets THEN "categories"
  ELSE IF NextTarget(t) = NumTargets THEN "clearStorage"
  ELSE "clearAll"

\* the deletes are not awaited
NotAwaited(inFlight) == TRUE

\* await Promise.all(...): every delete of the listing has completed
AllSettled(inFlight) == inFlight = {}

\* the failure is logged and the run goes on
ThrowCaught(failedCall) ==
  /\ error' = failedCall
  /\ UNCHANGED pc

\* seed() throws: the rest of the run is skipped
Throw(failedCall) ==
  /\ pc' = "failed"
  /\ error' = failedCall

clearAll ==
  /\ pc = "clearAll"
  /\ \/ /\ Throw("listDocuments")
        /\ UNCHANGED << list, pending, calls, truncated >>
     \/ LET page == Page(documents[Collections[target]]) IN
          /\ list' = [ list EXCEPT ![target] = Ids(page) ]
          /\ pending' = pending \cup Ids(page)
          /\ calls' = calls + Cardinality(page)
          /\ truncated' =
               (truncated \/ Cardinality(documents[Collections[target]]) > PageSize)
          /\ pc' = "awaitDeletes"
          /\ UNCHANGED error
  /\ UNCHANGED << data, documents, files, nextId, target, i, j, categoryMap,
                  customizationMap, menuMap, imageUrl, uploadedImage, doc,
                  call, run, atStart, created, completed, firstCounts >>

clearStorage ==
  /\ pc = "clearStorage"
  /\ \/ /\ Throw("listFiles")
        /\ UNCHANGED << list, pending, calls >>
     \/ LET page == Page(files) IN
          /\ list' = [ list EXCEPT ![target] = Ids(page) ]
          /\ pending' = pending \cup Ids(page)
          /\ calls' = calls + Cardinality(page)
          /\ pc' = "awaitDeletes"
          /\ UNCHANGED error
  /\ UNCHANGED << data, documents, files, nextId, target, i, j, categoryMap,
                  customizationMap, menuMap, imageUrl, uploadedImage, doc,
                  call, run, atStart, created, completed, firstCounts, truncated >>

\* a failed delete is ignored and the run goes on
SettleAnyway(id, ok) ==
  /\ id \in pending
  /\ pending' = pending \ {id}
  /\ UNCHANGED << pc, error >>

\* the deletes are awaited one after another, oldest first
SettleInOrder(id, ok) ==
  /\ id \in pending
  /\ \A other \in pending : id <= other
  /\ pending' = pending \ {id}
  /\ IF ok \/ pc # "awaitDeletes"
       THEN UNCHANGED << pc, error >>
       ELSE /\ pc' = "failed"
            /\ error' = IF target = NumTargets THEN "deleteFile" ELSE "deleteDocument"

\* one delete settles; the others of the listing stay in flight, also after
\* Promise.all has rejected
Settle(id, ok) ==
  /\ id \in pending
  /\ pending' = pending \ {id}
  /\ IF ok \/ pc # "awaitDeletes"
       THEN UNCHANGED << pc, error >>
       ELSE Throw(IF target = NumTargets THEN "deleteFile" ELSE "deleteDocument")

\* the delete of document id settles: it succeeded (ok) or it failed
deleteDocumentOf(id, ok) ==
  /\ target <= Len(Collections)
  /\ Settle(id, ok)
  /\ documents' =
       IF ok
         THEN [ documents EXCEPT ![Collections[target]] =
                  { d \in @ : d.id # id } ]
         ELSE documents
  /\ UNCHANGED << data, files, nextId, target, list, i, j, categoryMap,
                  customizationMap, menuMap, imageUrl, uploadedImage, doc,
                  call, run, atStart, created, calls, completed, firstCounts,
                  truncated >>

deleteDocument == \E id \in pending, ok \in BOOLEAN : deleteDocumentOf(id, ok)

\* the delete of file id settles: it succeeded (ok) or it failed
deleteFileOf(id, ok) ==
  /\ target = NumTargets
  /\ Settle(id, ok)
  /\ files' = IF ok THEN { f \in files : f.id # id } ELSE files
  /\ UNCHANGED << data, documents, nextId, target, list, i, j, categoryMap,
                  customizationMap, menuMap, imageUrl, uploadedImage, doc,
                  call, run, atStart, created, calls, completed, firstCounts,
                  truncated >>

deleteFile == \E id \in pending, ok \in BOOLEAN : deleteFileOf(id, ok)

\* Promise.all resolves, clearAll (or clearStorage) returns and seed() goes on
awaitDeletes ==
  /\ pc = "awaitDeletes"
  /\ AllSettled(pending)
  /\ pc' = AfterClear(target)
  /\ target' = IF NextTarget(target) <= NumTargets THEN NextTarget(target) ELSE target
  /\ i' = 1
  /\ UNCHANGED << data, documents, files, nextId, list, pending, j,
                  categoryMap, customizationMap, menuMap, imageUrl,
                  uploadedImage, doc, call, error, run, atStart, created,
                  calls, completed, firstCounts, truncated >>

(***************************************************************************)
(* createDocument: the backend stores a document under a fresh identifier  *)
(* and returns it.                                                         *)
(***************************************************************************)
NewDocument(body) == [ id |-> nextId, body |-> body ]

Created(t) == [ created EXCEPT ![t] = @ \cup {nextId} ]

(***************************************************************************)
(* Phase 2 - categories.                                                   *)
(***************************************************************************)
createCategory ==
  /\ pc = "categories"
  /\ IF i > Len(data.categories)
       THEN /\ pc' = "customizations"
            /\ i' = 1
            /\ UNCHANGED << documents, nextId, categoryMap, error, created,
                            calls >>
       ELSE /\ calls' = calls + 1
            /\ \/ /\ Throw("createDocument")
                  /\ UNCHANGED << documents, nextId, categoryMap, created, i >>
               \/ LET cat == data.categories[i] IN
                    /\ documents' =
                         [ documents EXCEPT ![categoriesCollectionId] =
                             @ \cup { NewDocument(cat) } ]
                    /\ categoryMap' = Put(categoryMap, cat.name, nextId)
                    /\ created' = Created(1)
                    /\ nextId' = nextId + 1
                    /\ i' = i + 1
                    /\ UNCHANGED << pc, error >>
  /\ UNCHANGED << data, files, target, list, pending, j, customizationMap,
                  menuMap, imageUrl, uploadedImage, doc, call, run, atStart,
                  completed, firstCounts, truncated >>

(***************************************************************************)
(* Phase 3 - customizations.                                               *)
(***************************************************************************)
createCustomization ==
  /\ pc = "customizations"
  /\ IF i > Len(data.customizations)
       THEN /\ pc' = "menu"
            /\ i' = 1
            /\ UNCHANGED << documents, nextId, customizationMap, error,
                            created, calls >>
       ELSE /\ calls' = calls + 1
            /\ \/ /\ Throw("createDocument")
                  /\ UNCHANGED << documents, nextId, customizationMap,
                                  created, i >>
               \/ LET cus == data.customizations[i] IN
                    /\ documents' =
                         [ documents EXCEPT ![customizationsCollectionId] =
                             @ \cup { NewDocument([ name |-> cus.name,
                                                    price |-> cus.price,
                                                    type |-> cus.type ]) } ]
                    /\ customizationMap' = Put(customizationMap, cus.name, nextId)
                    /\ created' = Created(2)
                    /\ nextId' = nextId + 1
                    /\ i' = i + 1
                    /\ UNCHANGED << pc, error >>
  /\ UNCHANGED << data, files, target, list, pending, j, categoryMap,
                  menuMap, imageUrl, uploadedImage, doc, call, run, atStart,
                  completed, firstCounts, truncated >>

(***************************************************************************)
(* Phase 4 - menu items, one after another: a pause, the image, the menu   *)
(* document, then the item's join documents.                               *)
(***************************************************************************)
menuItem ==
  /\ pc = "menu"
  /\ IF i > Len(data.menu)
       THEN /\ pc' = "done"
            /\ completed' = completed + 1
            /\ firstCounts' = IF completed = 0 THEN Counts ELSE firstCounts
            /\ UNCHANGED << imageUrl, call >>
       ELSE /\ pc' = "fetch"
            /\ imageUrl' = data.menu[i].image_url
            /\ call' = [ NoCall EXCEPT !.files = Ids(files) ]
            /\ UNCHANGED << completed, firstCounts >>
  /\ UNCHANGED << data, documents, files, nextId, target, list, pending, i, j,
                  categoryMap, customizationMap, menuMap, uploadedImage, doc,
                  error, run, atStart, created, calls, truncated >>

(***************************************************************************)
(* uploadImageToStorage: fetch the image, read its body, store it as a     *)
(* file and return the file's view URL; on any failure return imageUrl.    *)
(***************************************************************************)
ViewUrl(fileId) ==
  [ host |-> "storage", last |-> "view", query |-> "project",
    item |-> 0, fileId |-> fileId ]

\* the last path segment without its query, or a generated name
FileName(url) == IF url.last # "" THEN url.last ELSE "image-now.png"

\* the body's type: some responses carry none
BlobType(url) == IF url.last = "" THEN "" ELSE "image/jpeg"

MimeType(url) == IF BlobType(url) # "" THEN BlobType(url) ELSE "image/png"

\* return url to seed()
Return(url) ==
  /\ uploadedImage' = url
  /\ pc' = "createMenu"
  /\ UNCHANGED error

\* the status is not looked at
NotOkIgnored ==
  /\ pc' = "blob"
  /\ UNCHANGED << uploadedImage, error >>

\* response.ok is false: the original URL is the result
NotOk == Return(imageUrl)

\* the error is thrown on to seed()
CatchRethrows ==
  /\ pc' = "failed"
  /\ error' = "uploadImageToStorage"
  /\ UNCHANGED uploadedImage

\* the catch block: the original URL is the result
Catch == Return(imageUrl)

fetch ==
  /\ pc = "fetch"
  /\ \/ /\ call' = [ call EXCEPT !.fetch = "threw" ]
        /\ Catch
     \/ /\ call' = [ call EXCEPT !.fetch = "notOk" ]
        /\ NotOk
     \/ /\ call' = [ call EXCEPT !.fetch = "ok" ]
        /\ pc' = "blob"
        /\ UNCHANGED << uploadedImage, error >>
  /\ UNCHANGED << data, documents, files, nextId, target, list, pending, i, j,
                  categoryMap, customizationMap, menuMap, imageUrl, doc, run,
                  atStart, created, calls, completed, firstCounts, truncated >>

blob ==
  /\ pc = "blob"
  /\ \/ /\ call' = [ call EXCEPT !.blob = "threw" ]
        /\ Catch
     \/ /\ call' = [ call EXCEPT !.blob = "ok" ]
        /\ pc' = "createFile"
        /\ UNCHANGED << uploadedImage, error >>
  /\ UNCHANGED << data, documents, files, nextId, target, list, pending, i, j,
                  categoryMap, customizationMap, menuMap, imageUrl, doc, run,
                  atStart, created, calls, completed, firstCounts, truncated >>

createFile ==
  /\ pc = "createFile"
  /\ \/ /\ call' = [ call EXCEPT !.createFile = "threw" ]
        /\ Catch
        /\ UNCHANGED << files, nextId, created >>
     \/ /\ call' = [ call EXCEPT !.createFile = "ok" ]
        /\ files' = files \cup
             { NewDocument([ name |-> FileName(imageUrl),
                             type |-> MimeType(imageUrl),
                             uri |-> imageUrl ]) }
        /\ created' = Created(NumTargets)
        /\ nextId' = nextId + 1
        /\ Return(ViewUrl(nextId))
  /\ UNCHANGED << data, documents, target, list, pending, i, j, categoryMap,
                  customizationMap, menuMap, imageUrl, doc, run, atStart,
                  calls, completed, firstCounts, truncated >>

\* the category resolved in the wrong map
CategoryOfOtherMap(item) == Lookup(customizationMap, item.category_name)

\* categoryMap[item.category_name]
CategoryOf(item) == Lookup(categoryMap, item.category_name)

createMenu ==
  /\ pc = "createMenu"
  /\ calls' = calls + 1
  /\ \/ /\ Throw("createDocument")
        /\ UNCHANGED << documents, nextId, menuMap, doc, created, j >>
     \/ LET item == data.menu[i] IN
          /\ documents' =
               [ documents EXCEPT ![menuCollectionId] =
                   @ \cup { NewDocument(
                     [ name |-> item.name,
                       description |-> item.description,
                       image_url |-> uploadedImage,
                       price |-> item.price,
                       rating |-> item.rating,
                       calories |-> item.calories,
                       protein |-> item.protein,
                       categories |-> CategoryOf(item) ]) } ]
          /\ doc' = nextId
          /\ menuMap' = Put(menuMap, item.name, nextId)
          /\ created' = Created(3)
          /\ nextId' = nextId + 1
          /\ j' = 1
          /\ pc' = "menuCustomizations"
          /\ UNCHANGED error
  /\ UNCHANGED << data, files, target, list, pending, i, categoryMap,
                  customizationMap, imageUrl, uploadedImage, call, run,
                  atStart, completed, firstCounts, truncated >>

(***************************************************************************)
(* Phase 5 - one join document per customization name of the item, made    *)
(* inside the loop over the menu items.                                    *)
(***************************************************************************)
\* a loop that stops one name early
MoreCustomizationsButLast(item, k) == k < Len(item.customizations)

\* for (const cusName of item.customizations): is there a k-th name
MoreCustomizations(item, k) == k <= Len(item.customizations)

\* customizationMap[cusName]
CustomizationOf(cusName) == Lookup(customizationMap, cusName)

createMenuCustomization ==
  /\ pc = "menuCustomizations"
  /\ IF ~ MoreCustomizations(data.menu[i], j)
       THEN /\ pc' = "menu"
            /\ i' = i + 1
            /\ UNCHANGED << documents, nextId, error, created, calls, j >>
       ELSE /\ calls' = calls + 1
            /\ \/ /\ Throw("createDocument")
                  /\ UNCHANGED << documents, nextId, created, i, j >>
               \/ LET cusName == data.menu[i].customizations[j] IN
                    /\ documents' =
                         [ documents EXCEPT ![menuCustomizationsCollectionId] =
                             @ \cup { NewDocument(
                               [ menu |-> doc,
                                 customizations |-> CustomizationOf(cusName)
                               ]) } ]
                    /\ created' = Created(4)
                    /\ nextId' = nextId + 1
                    /\ j' = j + 1
                    /\ UNCHANGED << pc, error, i >>
  /\ UNCHANGED << data, files, target, list, pending, categoryMap,
                  customizationMap, menuMap, imageUrl, uploadedImage, doc,
                  call, run, atStart, completed, firstCounts, truncated >>

Next ==
  \/ testSeed
  \/ clearAll
  \/ clearStorage
  \/ deleteDocument
  \/ deleteFile
  \/ awaitDeletes
  \/ createCategory
  \/ createCustomization
  \/ menuItem
  \/ fetch
  \/ blob
  \/ createFile
  \/ createMenu
  \/ createMenuCustomization

Spec == Init /\ [][Next]_vars


(***************************************************************************)
(* What the properties speak of.                                           *)
(***************************************************************************)
\* identifiers now stored in target t
StoreIds(t) == Snapshot[t]

\* the documents of collection t that this run created
CreatedDocs(t) == { d \in documents[Collections[t]] : d.id \in created[t] }

CategoryNames == { data.categories[k].name : k \in DOMAIN data.categories }

CustomizationNames ==
  { data.customizations[k].name : k \in DOMAIN data.customizations }

\* the join documents that refer to the menu document id
JoinsOf(id) ==
  { d \in documents[menuCustomizationsCollectionId] : d.body.menu = id }

(***************************************************************************)
(* C1.  After seed() has completed, every fixture menu item M with         *)
(* customization list L has one menu document of this run, exactly |L|     *)
(* join documents refer to it, and for each name of L that the fixture     *)
(* lists exactly one of them carries the identifier of the customization   *)
(* document this run created for that name.                                *)
(***************************************************************************)
C1_JoinRecords ==
  pc = "done" =>
    \A m \in DOMAIN data.menu :
      LET M == data.menu[m]
          L == M.customizations
          menuDocs == { d \in CreatedDocs(3) : d.body.name = M.name }
      IN  /\ Cardinality(menuDocs) = 1
          /\ \A md \in menuDocs :
               /\ Cardinality(JoinsOf(md.id)) = Len(L)
               /\ \A x \in DOMAIN L :
                    L[x] \in CustomizationNames =>
                      \E c \in CreatedDocs(2) :
                        /\ c.body.name = L[x]
                        /\ Cardinality({ d \in JoinsOf(md.id) :
                                           d.body.customizations = c.id }) = 1

\* a completed run over two menu items, one with two customizations, while
\* join documents of before the run are still stored
C1_Witness ==
  /\ pc = "done"
  /\ Len(data.menu) >= 2
  /\ \E m \in DOMAIN data.menu : Len(data.menu[m].customizations) >= 2
  /\ \E d \in documents[menuCustomizationsCollectionId] : d.id \notin created[4]

(***************************************************************************)
(* C2.  After seed() has completed, whatever the categories collection     *)
(* held before, exactly one category document exists per fixture category  *)
(* name, and categoryMap has every fixture category name.                  *)
(***************************************************************************)
C2_OneDocumentPerCategory ==
  pc = "done" =>
    \A name \in CategoryNames :
      /\ Cardinality({ d \in documents[categoriesCollectionId] :
                         d.body.name = name }) = 1
      /\ name \in DOMAIN categoryMap

(***************************************************************************)
(* C3.  The menu document seed() creates for a fixture menu item whose     *)
(* category_name the fixture lists has as its category the identifier of   *)
(* the category document created in the same run for that name.            *)
(***************************************************************************)
C3_MenuCategory ==
  \A d \in CreatedDocs(3) :
    \A m \in DOMAIN data.menu :
      ( data.menu[m].name = d.body.name
        /\ data.menu[m].category_name \in CategoryNames ) =>
          \E c \in CreatedDocs(1) :
            /\ c.body.name = data.menu[m].category_name
            /\ d.body.categories = c.id

\* a menu document of this run whose category is listed, while an older
\* category document of the same name is still stored
C3_Witness ==
  /\ pc = "done"
  /\ \E d \in CreatedDocs(3) :
       \E m \in DOMAIN data.menu :
         /\ data.menu[m].name = d.body.name
         /\ data.menu[m].category_name \in CategoryNames
         /\ \E old \in documents[categoriesCollectionId] :
              /\ old.id \notin created[1]
              /\ old.body.name = data.menu[m].category_name

(***************************************************************************)
(* C4.  When no listing of a collection was cut short, a second completed  *)
(* run in succession leaves in each of the four collections as many        *)
(* documents as the first completed run did.                               *)
(***************************************************************************)
C4_Idempotent ==
  ( pc = "done" /\ completed >= 2 /\ ~ truncated ) => Counts = firstCounts

\* two completed runs with no listing cut short and no collection empty
C4_Witness ==
  /\ pc = "done"
  /\ completed >= 2
  /\ ~ truncated
  /\ \A c \in CollectionIds : Counts[c] > 0


\* the positions inside uploadImageToStorage
RehostSteps == { "fetch", "blob", "createFile" }

(***************************************************************************)
(* C5.  uploadImageToStorage is total: whatever the fetch, the body read   *)
(* and the upload do, a step inside it stays inside it or returns to       *)
(* seed() with a non-empty URL; it never ends the run.                     *)
(***************************************************************************)
RehostStep ==
  pc \in RehostSteps =>
    /\ pc' \in RehostSteps \cup { "createMenu" }
    /\ error' = "none"
    /\ pc' = "createMenu" =>
         ( uploadedImage' # EmptyUrl /\ uploadedImage'.host # "" )

\* C5: every step of the model is such a step
C5_RehostTotal == [][RehostStep]_vars

\* the upload threw and the rehoster has returned to seed()
C5_Witness ==
  /\ pc = "createMenu"
  /\ call.createFile = "threw"
  /\ uploadedImage # EmptyUrl

\* fetch, body read and upload of the current call all succeeded
AllSucceeded ==
  call.fetch = "ok" /\ call.blob = "ok" /\ call.createFile = "ok"

(***************************************************************************)
(* C6.  When uploadImageToStorage has returned: unless fetch, read and     *)
(* upload all succeeded the result is exactly imageUrl; a result other     *)
(* than imageUrl is the view URL of a file stored by this call; and after  *)
(* a non-success status the bucket holds the files it held before.         *)
(***************************************************************************)
C6_Fallback ==
  pc = "createMenu" =>
    /\ ~ AllSucceeded => uploadedImage = imageUrl
    /\ uploadedImage # imageUrl =>
         /\ AllSucceeded
         /\ \E f \in files :
              /\ f.id \notin call.files
              /\ uploadedImage = ViewUrl(f.id)
    /\ call.fetch = "notOk" => Ids(files) = call.files

\* a non-success status for the second image, after the first was stored
C6_Witness ==
  /\ pc = "createMenu"
  /\ call.fetch = "notOk"
  /\ uploadedImage = imageUrl
  /\ created[NumTargets] # {}

(***************************************************************************)
(* C7.  Once a backend call of seed() has failed, the run is over: the     *)
(* failing step changes nothing stored, no create or delete is issued      *)
(* afterwards, everything the run created stays stored and nothing it      *)
(* deleted comes back.                                                     *)
(***************************************************************************)
FailedStep ==
  error' # "none" =>
    /\ pc' = "failed"
    /\ created' = created
    /\ \A t \in 1..NumTargets :
         /\ created'[t] \subseteq Snapshot'[t]
         /\ Snapshot'[t] \subseteq Snapshot[t]
    /\ error = "none" => Snapshot' = Snapshot
    /\ error # "none" => ( error' = error /\ calls' = calls )

\* C7: every step of the model is such a step
C7_ErrorPolicy == [][FailedStep]_vars

\* the creation of a join or menu document failed after documents were
\* deleted and created
C7_Witness ==
  /\ pc = "failed"
  /\ error = "createDocument"
  /\ created[3] # {}
  /\ \E id \in atStart[1] : id \notin StoreIds(1)

\* the backend calls of seed() outside uploadImageToStorage
BackendCalls ==
  { "listDocuments", "listFiles", "deleteDocument", "deleteFile",
    "createDocument" }

(***************************************************************************)
(* C8.  A menu item that names a category or a customization the fixture   *)
(* does not list does not make seed() fail: only a backend call does; the  *)
(* menu document then has an undefined category, and the item has one      *)
(* join document with an undefined customization per such name.            *)
(***************************************************************************)
C8_ReferentialGap ==
  /\ pc = "failed" => error \in BackendCalls
  /\ \A d \in CreatedDocs(3) :
       \A m \in DOMAIN data.menu :
         ( data.menu[m].name = d.body.name
           /\ data.menu[m].category_name \notin CategoryNames ) =>
             d.body.categories = Undefined
  /\ pc = "done" =>
       \A m \in DOMAIN data.menu :
         LET L == data.menu[m].customizations IN
         \A md \in { d \in CreatedDocs(3) : d.body.name = data.menu[m].name } :
           Cardinality({ d \in JoinsOf(md.id) :
                           d.body.customizations = Undefined })
             = Cardinality({ x \in DOMAIN L : L[x] \notin CustomizationNames })

\* a completed run over a fixture with an unlisted category name and an
\* unlisted customization name
C8_Witness ==
  /\ pc = "done"
  /\ \E m \in DOMAIN data.menu : data.menu[m].category_name \notin CategoryNames
  /\ \E m \in DOMAIN data.menu :
       \E x \in DOMAIN data.menu[m].customizations :
         data.menu[m].customizations[x] \notin CustomizationNames

(***************************************************************************)
(* C9.  The order of the phases.                                           *)
(***************************************************************************)
\* the number of join documents the first k menu items ask for
RECURSIVE JoinsUpTo(_)
JoinsUpTo(k) ==
  IF k = 0 THEN 0 ELSE JoinsUpTo(k - 1) + Len(data.menu[k].customizations)

\* reset, categories, customizations and the menu items follow each other:
\* nothing is created while a reset delete is outstanding, no customization
\* before the last category, nothing of a menu item before the last
\* customization
EarlyPhasesInSequence ==
  /\ ( \E t \in 1..NumTargets : created[t] # {} ) =>
       /\ pending = {}
       /\ \A t \in 1..NumTargets : list[t] \cap StoreIds(t) = {}
  /\ created[2] # {} => Cardinality(created[1]) = Len(data.categories)
  /\ ( created[3] # {} \/ created[4] # {} \/ created[NumTargets] # {}
       \/ pc \in RehostSteps ) =>
         Cardinality(created[2]) = Len(data.customizations)

\* C9 as claimed: five phases in strict sequence, so that every menu
\* document is created before the first join document
C9_StrictPhases ==
  /\ EarlyPhasesInSequence
  /\ created[4] # {} => Cardinality(created[3]) = Len(data.menu)

\* C9 as amended: reset, categories, customizations and menu items run in
\* strict sequence; the join documents are not a phase after the menu
\* items: those of an item are created after its menu document and before
\* anything of the next item, and refer to a menu document of this run.
C9_PhaseOrder ==
  /\ EarlyPhasesInSequence
  /\ pc \in RehostSteps \cup { "createMenu" } =>
       /\ Cardinality(created[3]) = i - 1
       /\ Cardinality(created[4]) = JoinsUpTo(i - 1)
  /\ pc = "menuCustomizations" =>
       /\ Cardinality(created[3]) = i
       /\ Cardinality(created[4]) = JoinsUpTo(i - 1) + (j - 1)
  /\ \A d \in CreatedDocs(4) : d.body.menu \in created[3]

\* the second menu document is about to be created and a join document of
\* the first item exists
C9_Witness ==
  /\ pc = "createMenu"
  /\ i = 2
  /\ created[4] # {}
  /\ atStart[1] # {}

\* the reset phase has just ended
ResetEnded == pc = "categories" /\ i = 1 /\ created[1] = {}

InReset ==
  \/ pc \in { "clearAll", "clearStorage", "awaitDeletes" }
  \/ /\ pc = "failed"
     /\ error \in { "listDocuments", "listFiles", "deleteDocument", "deleteFile" }

\* a delete of the reset phase failed and ended the run
DeleteFailed == pc = "failed" /\ error \in { "deleteDocument", "deleteFile" }

\* the delete of id can settle now, as a success (ok) or as a failure
CanSettle(id, ok) ==
  \/ ENABLED deleteDocumentOf(id, ok)
  \/ ENABLED deleteFileOf(id, ok)

(***************************************************************************)
(* C11.  Scatter-gather delete.  The targets are cleared one after         *)
(* another: deletes in flight belong to the listing of the current target, *)
(* the listings of the targets before it are deleted and the targets after *)
(* it are untouched and not yet listed.  The deletes of one listing are    *)
(* issued together: while seed() waits, every listed document is deleted   *)
(* or has its delete in flight; and they are not ordered: each delete in   *)
(* flight can settle next, as a success or as a failure, also after        *)
(* another one has failed.  When a delete has failed the run is over with  *)
(* nothing created, the document whose delete failed still stored, some    *)
(* of the listing's other documents deleted and everything else of the     *)
(* target still stored.                                                    *)
(***************************************************************************)
C11_ScatterGather ==
  /\ pending \subseteq ( list[target] \cap StoreIds(target) )
  /\ InReset =>
       \A t \in 1..NumTargets :
         /\ t < target => StoreIds(t) = atStart[t] \ list[t]
         /\ t > target => ( list[t] = {} /\ StoreIds(t) = atStart[t] )
  /\ pc = "awaitDeletes" => ( list[target] \cap StoreIds(target) ) = pending
  /\ \A id \in pending : \A ok \in BOOLEAN : CanSettle(id, ok)
  /\ DeleteFailed =>
       /\ \A t \in 1..NumTargets : created[t] = {}
       /\ StoreIds(target) \subseteq atStart[target]
       /\ ( atStart[target] \ list[target] ) \subseteq StoreIds(target)
       /\ ( list[target] \cap StoreIds(target) ) \ pending # {}

\* the clearing of the second collection failed on one document after
\* another document of the same listing was deleted, and nothing is in flight
C11_Witness ==
  /\ DeleteFailed
  /\ target = 2
  /\ pending = {}
  /\ \E id \in list[target] : id \notin StoreIds(target)
  /\ \E id \in list[target] : id \in StoreIds(target)

=============================================================================
